---- MODULE Spec2Model ----
(***************************************************************************)
(* A model of src/async_file.rs of dbs-async: the `File` adapter over a    *)
(* tokio file and a boxed tokio-uring file, and the vectored wrappers      *)
(* `preadv` / `pwritev` with their retry loop and length bookkeeping.      *)
(***************************************************************************)
EXTENDS Integers, Sequences, FiniteSets, TLC

\* ------------------------------------------------------------------ bounds
MaxCap == 2
MaxBufs == 2
MaxFile == 3
MaxIntr == 2
MaxHandles == 3
MaxFds == 2

VARIABLES
    runtime,    \* CURRENT_RUNTIME of the thread: "Tokio" or "Uring"
    thread,     \* the thread that polls the calling task
    exists,     \* the regular files that exist
    fsize,      \* regular file -> its size in bytes
    fdtab,      \* descriptor -> open file description (or closed)
    heap,       \* address -> the box holding a tokio_uring::fs::File
    handles,    \* handle id -> the File value (or not yet created / dropped)
    pc,         \* position of the task: idle, inside a wrapper's loop, returned, panicked
    call,       \* the arguments and locals of the operation in flight
    bufs,       \* the buffers of the operation in flight, as they will be handed back
    last,       \* outcome of the most recent syscall attempt of the operation
    res,        \* value the operation returned
    nintr,      \* syscall attempts of the operation that were interrupted (saturating)
    nsys,       \* syscall attempts of the operation (saturating)
    lastop,     \* the most recent lifecycle operation and its outcome
    rel,        \* handle id -> number of times its box was released
    closes,     \* handle id -> number of times its descriptor was closed
    uaf         \* a released box was dereferenced or released again

vars == <<runtime, thread, exists, fsize, fdtab, heap, handles, pc, call, bufs, last,
          res, nintr, nsys, lastop, rel, closes, uaf>>

iovars == <<pc, call, bufs, last, res, nintr, nsys>>
filevars == <<exists, fsize, fdtab, heap, handles>>
ghostvars == <<lastop, rel, closes, uaf>>

\* ------------------------------------------------------------- arithmetic
Min(a, b) == IF a <= b THEN a ELSE b
Max(a, b) == IF a >= b THEN a ELSE b

RECURSIVE SumSeq(_)
SumSeq(s) == IF s = <<>> THEN 0 ELSE Head(s) + SumSeq(Tail(s))

\* ------------------------------------------------------- results, errors
Ok(n) == [t |-> "ok", n |-> n, e |-> "none"]
Err(e) == [t |-> "err", n |-> 0, e |-> e]
Panic(msg) == [t |-> "panic", n |-> 0, e |-> msg]
NoResult == [t |-> "none", n |-> 0, e |-> "none"]

\* std::io::Error::kind() of an OS error
kind(e) ==
    CASE e = "EINTR" -> "Interrupted"
      [] e = "ENOENT" -> "NotFound"
      [] e = "EACCES" -> "PermissionDenied"
      [] OTHER -> "Uncategorized"

\* ---------------------------------------------------------- the file system
Threads == {"t1", "t2"}
\* the threads that may poll a task: any worker of the tokio runtime, the one
\* thread of the tokio-uring runtime
PollingThreads(rt) == IF rt = "Tokio" THEN Threads ELSE {"t1"}
RegFiles == {"test.txt", "new.txt"}
Paths == RegFiles \cup {"dir", "dev"}
ftype(p) == IF p \in RegFiles THEN "file" ELSE IF p = "dir" THEN "dir" ELSE "chardev"

Fds == 1..MaxFds
Addrs == 1..MaxFds
Handles == 1..MaxHandles
Closed == [path |-> "none", wr |-> FALSE]
Desc(fd) == IF fd \in Fds THEN fdtab[fd] ELSE Closed
FreeFds == {fd \in Fds : fdtab[fd] = Closed}
LowestFree(S) == CHOOSE x \in S : \A y \in S : x <= y

\* ------------------------------------------------------- FileVolatileBuf
\* A buffer is its address, logical length and capacity.
Buf(a, l, c) == [addr |-> a, len |-> l, cap |-> c]
\* FileVolatileBuf::new(&mut [u8; c]) as the tests use it: nothing valid yet.
NewBuf(a, c) == Buf(a, 0, c)
\* FileVolatileBuf::from_raw(ptr, len, cap)
FromRaw(a, l, c) == Buf(a, l, c)
\* io_slice_mut(): the writable region [len, cap); io_slice(): the valid region [0, len)
io_slice_mut(b) == b.cap - b.len
io_slice(b) == b.len
\* set_size(n)
set_size(b, n) == [b EXCEPT !.len = n]

BufShapes == {<<l, c>> \in (0..MaxCap) \X (0..MaxCap) : l <= c}
BufLists ==
    UNION {{[i \in 1..k |-> Buf(i, f[i][1], f[i][2])] : f \in [1..k -> BufShapes]}
           : k \in 0..MaxBufs}
Offsets == 0..MaxFile

\* ------------------------------------------------------------ the OS calls
\* preadv64(fd, iov, offset): every outcome the OS may produce. A regular file
\* yields what lies between the offset and end of file, up to the room offered;
\* a character device yields a driver-defined count, which the kernel does not
\* clamp to the room offered.
preadv64(fd, iov, off) ==
    LET d == Desc(fd)
        T == SumSeq(iov)
    IN  IF d = Closed THEN {Err("EBADF")}
        ELSE {Err("EINTR"), Err("EIO")} \cup
             (IF ftype(d.path) = "dir" THEN {Err("EISDIR")}
              ELSE IF ftype(d.path) = "file"
                   THEN {Ok(Min(T, Max(fsize[d.path] - off, 0)))}
                   ELSE {Ok(k) : k \in 0..(T + 1)})

\* pwritev64(fd, iov, offset): every outcome the OS may produce. MaxFile is
\* the file size limit: a write is cut short at the limit and fails with EFBIG
\* at or beyond it.
pwritev64(fd, iov, off) ==
    LET d == Desc(fd)
        T == SumSeq(iov)
    IN  IF d = Closed \/ ~d.wr \/ ftype(d.path) = "dir" THEN {Err("EBADF")}
        ELSE {Err("EINTR"), Err("EIO")} \cup
             (IF ftype(d.path) = "file"
              THEN (IF T > 0 /\ off >= MaxFile THEN {Err("EFBIG")}
                    ELSE {Ok(Min(T, Max(MaxFile - off, 0)))})
              ELSE {Ok(k) : k \in 0..T})

\* the file sizes after a write of n bytes at off through fd
Written(fd, off, n) ==
    LET p == Desc(fd).path
    IN  IF p \in RegFiles /\ n > 0
        THEN [fsize EXCEPT ![p] = Max(@, off + n)]
        ELSE fsize

\* --------------------------------------------------------------- preadv
\* Distribute with the room of a buffer taken to be its whole capacity.
RECURSIVE DistributeIgnoresLen(_, _)
DistributeIgnoresLen(bs, count) ==
    IF bs = <<>> THEN [bufs |-> <<>>, count |-> count]
    ELSE LET buf == Head(bs)
             cnt == Min(count, buf.cap)
             nb == set_size(buf, buf.len + cnt)
         IN  IF count - cnt = 0
             THEN [bufs |-> <<nb>> \o Tail(bs), count |-> 0]
             ELSE LET r == DistributeIgnoresLen(Tail(bs), count - cnt)
                  IN  [bufs |-> <<nb>> \o r.bufs, count |-> r.count]

\* The bookkeeping loop of preadv: `count` bytes go to the buffers in order.
RECURSIVE Distribute(_, _)
Distribute(bs, count) ==
    IF bs = <<>> THEN [bufs |-> <<>>, count |-> count]
    ELSE LET buf == Head(bs)
             cnt == Min(count, buf.cap - buf.len)
             nb == set_size(buf, buf.len + cnt)
         IN  IF count - cnt = 0
             THEN [bufs |-> <<nb>> \o Tail(bs), count |-> 0]
             ELSE LET r == Distribute(Tail(bs), count - cnt)
                  IN  [bufs |-> <<nb>> \o r.bufs, count |-> r.count]

\* PreadvStep handing an interrupted syscall's error to the caller.
PreadvStepReturnsIntr(o, bs) ==
    IF o.t = "ok"
    THEN LET d == Distribute(bs, o.n)
         IN  IF d.count = 0
             THEN [pc |-> "returned", res |-> Ok(o.n), bufs |-> d.bufs]
             ELSE [pc |-> "panicked", res |-> Panic("assert_eq"), bufs |-> d.bufs]
    ELSE [pc |-> "returned", res |-> Err(o.e), bufs |-> bs]

\* PreadvStep giving up once MaxIntr attempts were interrupted.
PreadvStepGivesUp(o, bs) ==
    IF o.t = "ok"
    THEN LET d == Distribute(bs, o.n)
         IN  IF d.count = 0
             THEN [pc |-> "returned", res |-> Ok(o.n), bufs |-> d.bufs]
             ELSE [pc |-> "panicked", res |-> Panic("assert_eq"), bufs |-> d.bufs]
    ELSE IF kind(o.e) # "Interrupted" \/ nintr >= MaxIntr
         THEN [pc |-> "returned", res |-> Err(o.e), bufs |-> bs]
         ELSE [pc |-> "preadv", res |-> NoResult, bufs |-> bs]

\* PreadvStep returning the count without the bookkeeping.
PreadvStepNoBookkeeping(o, bs) ==
    IF o.t = "ok"
    THEN [pc |-> "returned", res |-> Ok(o.n), bufs |-> bs]
    ELSE IF kind(o.e) # "Interrupted"
         THEN [pc |-> "returned", res |-> Err(o.e), bufs |-> bs]
         ELSE [pc |-> "preadv", res |-> NoResult, bufs |-> bs]

\* One turn of preadv's loop after the syscall produced outcome o.
PreadvStep(o, bs) ==
    IF o.t = "ok"
    THEN LET d == Distribute(bs, o.n)
         IN  IF d.count = 0
             THEN [pc |-> "returned", res |-> Ok(o.n), bufs |-> d.bufs]
             ELSE [pc |-> "panicked", res |-> Panic("assert_eq"), bufs |-> d.bufs]
    ELSE IF kind(o.e) # "Interrupted"
         THEN [pc |-> "returned", res |-> Err(o.e), bufs |-> bs]
         ELSE [pc |-> "preadv", res |-> NoResult, bufs |-> bs]

\* PwritevStep retrying after every error.
PwritevStepRetriesAll(o, bs) ==
    IF o.t = "ok"
    THEN [pc |-> "returned", res |-> Ok(o.n), bufs |-> bs]
    ELSE [pc |-> "pwritev", res |-> NoResult, bufs |-> bs]

\* PwritevStep with the bookkeeping of a read applied to the source buffers.
PwritevStepDistributes(o, bs) ==
    IF o.t = "ok"
    THEN [pc |-> "returned", res |-> Ok(o.n), bufs |-> Distribute(bs, o.n).bufs]
    ELSE IF kind(o.e) # "Interrupted"
         THEN [pc |-> "returned", res |-> Err(o.e), bufs |-> bs]
         ELSE [pc |-> "pwritev", res |-> NoResult, bufs |-> bs]

\* One turn of pwritev's loop after the syscall produced outcome o.
PwritevStep(o, bs) ==
    IF o.t = "ok"
    THEN [pc |-> "returned", res |-> Ok(o.n), bufs |-> bs]
    ELSE IF kind(o.e) # "Interrupted"
         THEN [pc |-> "returned", res |-> Err(o.e), bufs |-> bs]
         ELSE [pc |-> "pwritev", res |-> NoResult, bufs |-> bs]

\* ------------------------------------------------------------ the handles
NoHandle == [st |-> "none", variant |-> "none", fd |-> 0, ptr |-> 0, path |-> "none"]
Tokio(fd, p) == [st |-> "live", variant |-> "Tokio", fd |-> fd, ptr |-> 0, path |-> p]
Uring(a, p) == [st |-> "live", variant |-> "Uring", fd |-> 0, ptr |-> a, path |-> p]
Dropped(v) == [st |-> "dropped", variant |-> v, fd |-> 0, ptr |-> 0, path |-> "none"]
NoBox == [live |-> FALSE, fd |-> 0, owner |-> 0]
Live == {h \in Handles : handles[h].st = "live"}
\* the handles an operation can start on: none while one is in flight
Callable == IF pc = "idle" THEN Live ELSE {}

\* as_tokio_uring_file(): the tokio_uring file behind the address of a Uring handle
as_tokio_uring_file(h) ==
    IF handles[h].variant = "Uring"
    THEN heap[handles[h].ptr]
    ELSE NoBox
\* whether the dereference in as_tokio_uring_file() reads a released box
Dangling(h) == handles[h].variant = "Uring" /\ ~heap[handles[h].ptr].live

\* AsRawFd for File
as_raw_fd(h) ==
    IF handles[h].variant = "Tokio" THEN handles[h].fd
    ELSE as_tokio_uring_file(h).fd

NoOp == [op |-> "none", h |-> 0, out |-> NoResult]
NoCall == [op |-> "none", fn |-> "none", h |-> 0, fd |-> 0, off |-> 0, iov |-> <<>>, bufs0 |-> <<>>,
           runner |-> "none", suspended |-> FALSE]
Ready == pc = "idle"

\* entering preadv(fd, bufs, offset): the scatter list is built once, before the loop
Preadv(op, h, bs, off) ==
    /\ pc' = "preadv"
    /\ call' = [op |-> op, fn |-> "preadv", h |-> h, fd |-> as_raw_fd(h), off |-> off,
                iov |-> [i \in 1..Len(bs) |-> io_slice_mut(bs[i])], bufs0 |-> bs,
                runner |-> thread, suspended |-> FALSE]
    /\ bufs' = bs
    /\ last' = NoResult /\ res' = NoResult /\ nintr' = 0 /\ nsys' = 0
    /\ uaf' = (uaf \/ Dangling(h))

\* entering pwritev(fd, bufs, offset)
Pwritev(op, h, bs, off) ==
    /\ pc' = "pwritev"
    /\ call' = [op |-> op, fn |-> "pwritev", h |-> h, fd |-> as_raw_fd(h), off |-> off,
                iov |-> [i \in 1..Len(bs) |-> io_slice(bs[i])], bufs0 |-> bs,
                runner |-> thread, suspended |-> FALSE]
    /\ bufs' = bs
    /\ last' = NoResult /\ res' = NoResult /\ nintr' = 0 /\ nsys' = 0
    /\ uaf' = (uaf \/ Dangling(h))

\* tokio_uring::fs::File::read_at / write_at: submitted to the ring, the task waits
UringSubmit(op, h, buf, off) ==
    /\ pc' = "uring"
    /\ call' = [op |-> op, fn |-> "uring", h |-> h, fd |-> as_raw_fd(h), off |-> off,
                iov |-> <<IF op = "read_at" THEN io_slice_mut(buf) ELSE io_slice(buf)>>,
                bufs0 |-> <<buf>>, runner |-> "kernel", suspended |-> TRUE]
    /\ bufs' = <<buf>>
    /\ last' = NoResult /\ res' = NoResult /\ nintr' = 0 /\ nsys' = 0
    /\ uaf' = (uaf \/ Dangling(h))

\* File::async_read_at
AsyncReadAt(h, buf, off) ==
    /\ Ready /\ h \in Live
    /\ IF handles[h].variant = "Tokio"
       THEN Preadv("read_at", h, <<buf>>, off)
       ELSE UringSubmit("read_at", h, buf, off)
    /\ UNCHANGED <<runtime, thread, filevars, lastop, rel, closes>>

\* File::async_readv_at
AsyncReadvAt(h, bs, off) ==
    /\ Ready /\ h \in Live
    /\ Preadv("readv_at", h, bs, off)
    /\ UNCHANGED <<runtime, thread, filevars, lastop, rel, closes>>

\* File::async_write_at
AsyncWriteAt(h, buf, off) ==
    /\ Ready /\ h \in Live
    /\ IF handles[h].variant = "Tokio"
       THEN Pwritev("write_at", h, <<buf>>, off)
       ELSE UringSubmit("write_at", h, buf, off)
    /\ UNCHANGED <<runtime, thread, filevars, lastop, rel, closes>>

\* File::async_writev_at
AsyncWritevAt(h, bs, off) ==
    /\ Ready /\ h \in Live
    /\ Pwritev("writev_at", h, bs, off)
    /\ UNCHANGED <<runtime, thread, filevars, lastop, rel, closes>>

Bump(n) == Min(n + 1, MaxIntr + 1)
BumpIntr(n) == Min(n + 1, MaxIntr)

\* one turn of preadv's loop: the syscall, then the bookkeeping or the retry decision
PreadvAttempt ==
    /\ pc = "preadv"
    /\ \E o \in preadv64(call.fd, call.iov, call.off) :
          LET s == PreadvStep(o, bufs)
          IN  /\ pc' = s.pc /\ res' = s.res /\ bufs' = s.bufs
              /\ last' = o
              /\ nsys' = Bump(nsys)
              /\ nintr' = IF o = Err("EINTR") THEN BumpIntr(nintr) ELSE nintr
    /\ UNCHANGED <<runtime, thread, filevars, call, ghostvars>>

\* one turn of pwritev's loop
PwritevAttempt ==
    /\ pc = "pwritev"
    /\ \E o \in pwritev64(call.fd, call.iov, call.off) :
          LET s == PwritevStep(o, bufs)
          IN  /\ pc' = s.pc /\ res' = s.res /\ bufs' = s.bufs
              /\ last' = o
              /\ nsys' = Bump(nsys)
              /\ nintr' = IF o = Err("EINTR") THEN BumpIntr(nintr) ELSE nintr
              /\ fsize' = IF o.t = "ok" THEN Written(call.fd, call.off, o.n) ELSE fsize
    /\ UNCHANGED <<runtime, thread, exists, fdtab, heap, handles, call, ghostvars>>

\* the ring completes the single-buffer operation and the task resumes
UringComplete ==
    /\ pc = "uring"
    /\ \E o \in (IF call.op = "read_at" THEN preadv64(call.fd, call.iov, call.off)
                 ELSE pwritev64(call.fd, call.iov, call.off)) :
          /\ pc' = "returned"
          /\ last' = o
          /\ nsys' = Bump(nsys)
          /\ nintr' = IF o = Err("EINTR") THEN BumpIntr(nintr) ELSE nintr
          /\ res' = IF o.t = "ok" /\ call.op = "read_at"
                    THEN Ok(Min(o.n, SumSeq(call.iov))) ELSE o
          /\ bufs' = IF o.t = "ok" /\ call.op = "read_at"
                     THEN <<set_size(bufs[1], bufs[1].len + Min(o.n, SumSeq(call.iov)))>>
                     ELSE bufs
          /\ fsize' = IF o.t = "ok" /\ call.op = "write_at"
                      THEN Written(call.fd, call.off, o.n) ELSE fsize
    /\ UNCHANGED <<runtime, thread, exists, fdtab, heap, handles, call, ghostvars>>


\* the caller takes (result, buffers) from the finished operation and goes on
Continue ==
    /\ pc = "returned"
    /\ pc' = "idle" /\ call' = NoCall /\ bufs' = <<>>
    /\ last' = NoResult /\ res' = NoResult /\ nintr' = 0 /\ nsys' = 0
    /\ lastop' = NoOp
    /\ UNCHANGED <<runtime, thread, filevars, rel, closes, uaf>>

\* ------------------------------------------------------- handle lifecycle
NextId == Cardinality({h \in Handles : handles[h].st # "none"}) + 1
Op(op, h, out) == [op |-> op, h |-> h, out |-> out]
\* a successful metadata(): the file type it reports
MdOk(ty) == [t |-> "ok", n |-> 0, e |-> ty]

\* OpenOptions::new().read(true).write(write).create(create).open(path):
\* the descriptor opened, or the error
sys_open(p, write, create) ==
    IF create /\ ~write THEN Err("EINVAL")
    ELSE IF p \in RegFiles /\ p \notin exists /\ ~create THEN Err("ENOENT")
    ELSE IF p = "dir" /\ write THEN Err("EISDIR")
    ELSE IF FreeFds = {} THEN Err("EMFILE")
    ELSE Ok(LowestFree(FreeFds))

\* the descriptor table after close(fd)
close(tab, fd) == IF fd \in Fds THEN [tab EXCEPT ![fd] = Closed] ELSE tab

\* Box::into_raw(Box::new(v)): the heap with the file v boxed at address a
box_new(hp, a, fd, h) == [hp EXCEPT ![a] = [live |-> TRUE, fd |-> fd, owner |-> h]]
\* a Drop that leaves the box allocated
box_drop_leak(hp, a) == hp
\* drop(Box::from_raw(ptr)): the heap with the box at address a released
box_drop(hp, a) == [hp EXCEPT ![a].live = FALSE]
\* the temporary view dropped instead: its destructor closes the descriptor
forget_dropped(tab, fd) == close(tab, fd)
\* std::mem::forget(file): the descriptor table after the temporary view over fd
\* is forgotten, its destructor never run
forget(tab, fd) == tab
\* a Uring arm that reports an OS error instead
UringTryCloneErr == Err("ENOSYS")
\* the Uring arm of async_try_clone
UringTryClone == Panic("not implemented")

\* File::async_open
AsyncOpen(p, write, create) ==
    /\ Ready /\ NextId \in Handles
    /\ LET ty == IF runtime = "Tokio" THEN 1 ELSE 2
           o == sys_open(p, write, create)
           h == NextId
       IN  IF o.t = "ok"
           THEN /\ fdtab' = [fdtab EXCEPT ![o.n] = [path |-> p, wr |-> write]]
                /\ exists' = IF p \in RegFiles THEN exists \cup {p} ELSE exists
                /\ IF ty = 1
                   THEN /\ handles' = [handles EXCEPT ![h] = Tokio(o.n, p)]
                        /\ heap' = heap
                   ELSE \E a \in {x \in Addrs : ~heap[x].live} :
                           /\ heap' = box_new(heap, a, o.n, h)
                           /\ handles' = [handles EXCEPT ![h] = Uring(a, p)]
                /\ lastop' = Op("open", h, Ok(o.n))
           ELSE /\ lastop' = Op("open", 0, o)
                /\ UNCHANGED <<exists, fdtab, heap, handles>>
    /\ pc' = "returned"
    /\ UNCHANGED <<runtime, thread, fsize, call, bufs, last, res, nintr, nsys, rel, closes,
                   uaf>>

\* Drop for File
DropFile(h) ==
    /\ Ready /\ h \in Live
    /\ handles' = [handles EXCEPT ![h] = Dropped(handles[h].variant)]
    /\ IF handles[h].variant = "Uring"
       THEN LET a == handles[h].ptr
            IN  /\ heap' = box_drop(heap, a)
                /\ rel' = [rel EXCEPT ![h] = IF heap'[a].live THEN @ ELSE @ + 1]
                /\ uaf' = (uaf \/ ~heap[a].live)
                /\ fdtab' = IF heap'[a].live THEN fdtab ELSE close(fdtab, heap[a].fd)
                /\ closes' = [closes EXCEPT ![h] = IF heap'[a].live THEN @ ELSE @ + 1]
       ELSE /\ fdtab' = close(fdtab, handles[h].fd)
            /\ closes' = [closes EXCEPT ![h] = @ + 1]
            /\ UNCHANGED <<heap, rel, uaf>>
    /\ lastop' = Op("drop", h, Ok(0))
    /\ pc' = "returned"
    /\ UNCHANGED <<runtime, thread, exists, fsize, call, bufs, last, res, nintr, nsys>>

\* File::metadata
Metadata(h) ==
    /\ Ready /\ h \in Live
    /\ LET fd == as_raw_fd(h)
           d == Desc(fd)
       IN  /\ \E o \in (IF d = Closed THEN {Err("EBADF")}
                        ELSE {MdOk(ftype(d.path)), Err("EIO")}) :
                 lastop' = Op("metadata", h, o)
           /\ fdtab' = forget(fdtab, fd)
           /\ closes' = IF fdtab' = fdtab THEN closes ELSE [closes EXCEPT ![h] = @ + 1]
    /\ uaf' = (uaf \/ Dangling(h))
    /\ pc' = "returned"
    /\ UNCHANGED <<runtime, thread, exists, fsize, heap, handles, call, bufs, last, res,
                   nintr, nsys, rel>>

\* AsRawFd::as_raw_fd, as Debug::fmt and the callers of the handle use it
AsRawFd(h) ==
    /\ Ready /\ h \in Live
    /\ lastop' = Op("as_raw_fd", h, Ok(as_raw_fd(h)))
    /\ uaf' = (uaf \/ Dangling(h))
    /\ pc' = "returned"
    /\ UNCHANGED <<runtime, thread, filevars, call, bufs, last, res, nintr, nsys, rel,
                   closes>>

\* File::async_try_clone
AsyncTryClone(h) ==
    /\ Ready /\ h \in Live /\ NextId \in Handles
    /\ IF handles[h].variant = "Tokio"
       THEN IF FreeFds = {}
            THEN /\ lastop' = Op("try_clone", h, Err("EMFILE"))
                 /\ pc' = "returned"
                 /\ UNCHANGED <<fdtab, handles>>
            ELSE LET fd == LowestFree(FreeFds)
                 IN  /\ fdtab' = [fdtab EXCEPT ![fd] = fdtab[handles[h].fd]]
                     /\ handles' = [handles EXCEPT ![NextId] = Tokio(fd, handles[h].path)]
                     /\ lastop' = Op("try_clone", h, Ok(NextId))
                     /\ pc' = "returned"
       ELSE /\ lastop' = Op("try_clone", h, UringTryClone)
            /\ pc' = IF UringTryClone.t = "panic" THEN "panicked" ELSE "returned"
            /\ UNCHANGED <<fdtab, handles>>
    /\ UNCHANGED <<runtime, thread, exists, fsize, heap, call, bufs, last, res, nintr,
                   nsys, rel, closes, uaf>>

\* ------------------------------------------------------ the specifications
SingleBufs == {Buf(1, sh[1], sh[2]) : sh \in BufShapes}
Zero == [h \in Handles |-> 0]

\* The state after one successful async_open, as every test of the file
\* begins: one handle of the runtime's variant, on a regular file of n bytes or
\* on a character device.
Init ==
    /\ runtime \in {"Tokio", "Uring"}
    /\ thread \in PollingThreads(runtime)
    /\ exists = {"test.txt"}
    /\ \E p \in {"test.txt", "dev"} :
          /\ \E n \in (IF p = "test.txt" THEN 0..MaxFile ELSE {0}) :
                fsize = [q \in RegFiles |-> IF q = "test.txt" THEN n ELSE 0]
          /\ fdtab = [fd \in Fds |-> IF fd = 1 THEN [path |-> p, wr |-> TRUE] ELSE Closed]
          /\ handles = [h \in Handles |->
                           IF h = 1
                           THEN (IF runtime = "Tokio" THEN Tokio(1, p) ELSE Uring(1, p))
                           ELSE NoHandle]
    /\ heap = IF runtime = "Tokio" THEN [a \in Addrs |-> NoBox]
              ELSE box_new([a \in Addrs |-> NoBox], 1, 1, 1)
    /\ pc = "idle" /\ call = NoCall /\ bufs = <<>>
    /\ last = NoResult /\ res = NoResult /\ nintr = 0 /\ nsys = 0
    /\ lastop = NoOp
    /\ rel = Zero /\ closes = Zero /\ uaf = FALSE

Next ==
    \/ \E h \in Callable, b \in SingleBufs, off \in Offsets : AsyncReadAt(h, b, off)
    \/ \E h \in Callable, bs \in BufLists, off \in Offsets : AsyncReadvAt(h, bs, off)
    \/ \E h \in Callable, b \in SingleBufs, off \in Offsets : AsyncWriteAt(h, b, off)
    \/ \E h \in Callable, bs \in BufLists, off \in Offsets : AsyncWritevAt(h, bs, off)
    \/ PreadvAttempt
    \/ PwritevAttempt
    \/ UringComplete
    \/ Continue

Spec == Init /\ [][Next]_vars

\* The handle lifecycle, from a process that has opened nothing: test.txt holds
\* MaxFile bytes, and the operations on a handle take one one-byte buffer.
InitFile ==
    /\ runtime \in {"Tokio", "Uring"}
    /\ thread = "t1"
    /\ exists = {"test.txt"}
    /\ fsize = [p \in RegFiles |-> IF p = "test.txt" THEN MaxFile ELSE 0]
    /\ fdtab = [fd \in Fds |-> Closed]
    /\ handles = [h \in Handles |-> NoHandle]
    /\ heap = [a \in Addrs |-> NoBox]
    /\ pc = "idle" /\ call = NoCall /\ bufs = <<>>
    /\ last = NoResult /\ res = NoResult /\ nintr = 0 /\ nsys = 0
    /\ lastop = NoOp
    /\ rel = Zero /\ closes = Zero /\ uaf = FALSE

OpenPaths == {"test.txt", "new.txt", "dir"}

NextFile ==
    \/ \E p \in OpenPaths, write \in BOOLEAN, create \in BOOLEAN : AsyncOpen(p, write, create)
    \/ \E h \in Callable : DropFile(h)
    \/ \E h \in Callable : Metadata(h)
    \/ \E h \in Callable : AsRawFd(h)
    \/ \E h \in Callable : AsyncTryClone(h)
    \/ \E h \in Callable : AsyncReadAt(h, NewBuf(1, 1), 0)
    \/ \E h \in Callable : AsyncReadvAt(h, <<NewBuf(1, 1)>>, 0)
    \/ \E h \in Callable : AsyncWriteAt(h, FromRaw(1, 1, 1), 0)
    \/ \E h \in Callable : AsyncWritevAt(h, <<FromRaw(1, 1, 1)>>, 0)
    \/ PreadvAttempt
    \/ PwritevAttempt
    \/ UringComplete
    \/ Continue

SpecFile == InitFile /\ [][NextFile]_vars

\* ================================================================ claims
InLoop == pc \in {"preadv", "pwritev"}
\* the operation in flight, or just returned, went through preadv / pwritev
ViaPreadv == call.fn = "preadv"
ViaPwritev == call.fn = "pwritev"
Room(b) == b.cap - b.len
\* the room of the buffers before position i
RoomBefore(bs, i) == SumSeq([j \in 1..(i - 1) |-> Room(bs[j])])
\* the share of n bytes that position i of bs receives when they are handed out in order
Share(bs, i, n) == Min(Max(n - RoomBefore(bs, i), 0), Room(bs[i]))
SameMemory(bs, cs) ==
    /\ Len(bs) = Len(cs)
    /\ \A i \in 1..Len(bs) : bs[i].addr = cs[i].addr /\ bs[i].cap = cs[i].cap

\* C1: a successful vectored read hands the returned count to the buffers
\* greedily in list order: buffer i grows by min(bytes still undistributed, its
\* room), so it gains bytes only when every earlier buffer is full, no length
\* exceeds its capacity, the increases sum to the count; and a count larger than
\* the total room never returns successfully: the assertion fires.
C1_GreedyDistribution ==
    /\ (pc = "returned" /\ ViaPreadv /\ res.t = "ok") =>
          /\ SameMemory(bufs, call.bufs0)
          /\ \A i \in 1..Len(bufs) :
                /\ bufs[i].len - call.bufs0[i].len = Share(call.bufs0, i, res.n)
                /\ bufs[i].len <= bufs[i].cap
                /\ bufs[i].len > call.bufs0[i].len =>
                      \A j \in 1..(i - 1) : bufs[j].len = bufs[j].cap
          /\ SumSeq([i \in 1..Len(bufs) |-> bufs[i].len - call.bufs0[i].len]) = res.n
          /\ res.n <= SumSeq([i \in 1..Len(bufs) |-> Room(call.bufs0[i])])
    /\ (ViaPreadv /\ last.t = "ok"
        /\ last.n > SumSeq([i \in 1..Len(call.bufs0) |-> Room(call.bufs0[i])])) =>
          pc = "panicked" /\ res = Panic("assert_eq")

\* a two-buffer read that fills the first buffer and part of the second, neither empty before
C1_Witness ==
    /\ pc = "returned" /\ ViaPreadv /\ res.t = "ok"
    /\ Len(bufs) = 2
    /\ call.bufs0[1].len > 0 /\ call.bufs0[1].len < call.bufs0[1].cap
    /\ bufs[1].len = bufs[1].cap
    /\ bufs[2].len > call.bufs0[2].len /\ bufs[2].len < bufs[2].cap

\* C2: interrupted syscalls are retried transparently: preadv and pwritev never
\* return an error of kind Interrupted; while the loop runs nothing but
\* interruptions has happened and no buffer has changed; the result and the
\* buffers are those of the first attempt that was not interrupted, whatever the
\* number of interruptions; and a retry keeps descriptor, scatter list and offset.
C2_State ==
    /\ InLoop =>
          /\ bufs = call.bufs0
          /\ last \in {NoResult, Err("EINTR")}
          /\ (last = Err("EINTR")) = (nintr > 0)
    /\ (pc = "returned" /\ (ViaPreadv \/ ViaPwritev)) =>
          /\ ~(res.t = "err" /\ kind(res.e) = "Interrupted")
          /\ last # Err("EINTR")
          /\ res.t = last.t /\ res.n = last.n /\ res.e = last.e
          /\ ViaPwritev => bufs = call.bufs0
          /\ (ViaPreadv /\ res.t = "err") => bufs = call.bufs0
          /\ (ViaPreadv /\ res.t = "ok") =>
                \A i \in 1..Len(bufs) :
                   bufs[i].len = call.bufs0[i].len + Share(call.bufs0, i, last.n)
C2_Step ==
    (InLoop /\ last' = Err("EINTR")) =>
        /\ pc' = pc /\ bufs' = bufs /\ call' = call /\ res' = NoResult
        /\ fsize' = fsize
\* C2: the loop's states and turns are as C2_State and C2_Step say: interrupted
\* syscalls are retried unseen and the result is as if none had been interrupted.
C2_InterruptedRetried == []C2_State /\ [][C2_Step]_vars

\* a read that was interrupted MaxIntr times and then transferred bytes
C2_Witness ==
    /\ pc = "returned" /\ ViaPreadv /\ nintr = MaxIntr /\ MaxIntr >= 2
    /\ res.t = "ok" /\ res.n > 0

\* C3: a syscall attempt of preadv or pwritev that fails with an error other
\* than signal interruption ends the call at once with that same error, every
\* buffer as it was before the call; no attempt follows the return.
C3_Step ==
    (InLoop /\ last'.t = "err" /\ kind(last'.e) # "Interrupted") =>
        /\ pc' = "returned"
        /\ res' = Err(last'.e)
        /\ bufs' = call.bufs0 /\ call' = call
        /\ fsize' = fsize
C3_State ==
    (pc = "returned" /\ (ViaPreadv \/ ViaPwritev) /\ res.t = "err") =>
        /\ res = last
        /\ bufs = call.bufs0
        /\ nsys = Min(nintr + 1, MaxIntr + 1)
        /\ ~ENABLED PreadvAttempt /\ ~ENABLED PwritevAttempt
\* C3: an error other than an interruption is returned at once, unchanged, with
\* the buffers untouched (C3_Step), and no syscall follows (C3_State).
C3_ErrorReturnedAtOnce == []C3_State /\ [][C3_Step]_vars

\* a write of two buffers that failed with an OS error after one interruption
C3_Witness ==
    /\ pc = "returned" /\ ViaPwritev /\ res = Err("EFBIG")
    /\ nintr = 1 /\ Len(bufs) = 2 /\ bufs = call.bufs0

\* C4: a single-buffer read through a Blocking handle into a buffer freshly
\* made from a span of c bytes, at offset o of a regular file of n bytes, never
\* panics and, unless the OS fails the read, returns min(c, max(n - o, 0)) with
\* the buffer's length equal to that result.
C4_ReadAt ==
    LET b0 == call.bufs0[1]
        n == fsize[handles[call.h].path]
    IN  (/\ call.op = "read_at" /\ pc \in {"returned", "panicked"}
         /\ handles[call.h].variant = "Tokio"
         /\ ftype(handles[call.h].path) = "file"
         /\ b0 = NewBuf(b0.addr, b0.cap)
         /\ last.t = "ok") =>
            /\ pc = "returned"
            /\ res = Ok(Min(b0.cap, Max(n - call.off, 0)))
            /\ Len(bufs) = 1 /\ bufs[1].len = res.n /\ bufs[1].cap = b0.cap
            /\ (call.off >= n => res.n = 0 /\ bufs[1] = b0)

\* a fresh buffer of two bytes read one byte short of the end of the file: one byte
C4_Witness ==
    /\ call.op = "read_at" /\ pc = "returned" /\ handles[call.h].variant = "Tokio"
    /\ ftype(handles[call.h].path) = "file"
    /\ call.bufs0 = <<NewBuf(1, 2)>> /\ call.off > 0
    /\ fsize[handles[call.h].path] = call.off + 1
    /\ res = Ok(1) /\ bufs[1].len = 1

\* C5: a successful write returns the syscall's count as it is and leaves every
\* source buffer's length and capacity, and the order of the buffers, as before
\* the call, also when fewer bytes were written than offered.
C5_WriteLeavesBuffers ==
    (pc = "returned" /\ ViaPwritev /\ res.t = "ok") =>
        /\ res = last
        /\ bufs = call.bufs0
        /\ res.n <= SumSeq([i \in 1..Len(bufs) |-> bufs[i].len])

\* a partial write of two buffers through a Uring handle
C5_Witness ==
    /\ pc = "returned" /\ ViaPwritev /\ res.t = "ok"
    /\ handles[call.h].variant = "Uring" /\ call.op = "writev_at"
    /\ Len(bufs) = 2 /\ bufs[1].len > 0 /\ bufs[2].len > 0
    /\ res.n > 0 /\ res.n < bufs[1].len + bufs[2].len

\* ------------------------------------------------- claims on the lifecycle
UringHandles(st) == {h \in Handles : handles[h].variant = "Uring" /\ handles[h].st = st}
LiveBoxes == {a \in Addrs : heap[a].live}

\* C6: the box behind a Uring handle is released exactly once, at the drop of
\* the handle holding it: a live handle's box is allocated, its own and not yet
\* released; a dropped handle's box was released once; no two live handles share
\* a box; no box outlives its handle or exists without one (so a failed open
\* allocated none); and no released box is dereferenced or released again.
C6_BoxReleasedOnce ==
    /\ \A h \in UringHandles("live") :
          /\ handles[h].ptr \in Addrs
          /\ heap[handles[h].ptr].live /\ heap[handles[h].ptr].owner = h
          /\ rel[h] = 0
    /\ \A h \in UringHandles("dropped") : rel[h] = 1
    /\ \A h \in Handles : handles[h].variant # "Uring" => rel[h] = 0
    /\ \A g, h \in UringHandles("live") : g # h => handles[g].ptr # handles[h].ptr
    /\ Cardinality(LiveBoxes) = Cardinality(UringHandles("live"))
    /\ ~uaf
    /\ (lastop.op = "open" /\ lastop.out.t = "err") => lastop.h = 0

\* a Uring handle was dropped, a later one lives at the address it had, and an open just failed
C6_Witness ==
    /\ UringHandles("dropped") # {}
    /\ \E h \in UringHandles("live") : handles[h].ptr = 1 /\ h > 1
    /\ lastop.op = "open" /\ lastop.out = Err("ENOENT")

\* C7: metadata() calls, successful or not, leave the descriptor of the handle
\* open, on the file the handle opened and owned by that handle alone; it is
\* closed once, when the handle is dropped; and every successful metadata()
\* reports the type of the file the handle opened.
C7_MetadataKeepsDescriptor ==
    /\ \A h \in Live :
          /\ as_raw_fd(h) \in Fds
          /\ Desc(as_raw_fd(h)) # Closed
          /\ Desc(as_raw_fd(h)).path = handles[h].path
          /\ closes[h] = 0
          /\ \A g \in Live : g # h => as_raw_fd(g) # as_raw_fd(h)
    /\ \A h \in Handles : handles[h].st = "dropped" => closes[h] = 1
    /\ Cardinality(Live) = Cardinality({fd \in Fds : fdtab[fd] # Closed})
    /\ (lastop.op = "metadata" /\ lastop.out.t = "ok" /\ lastop.h \in Live) =>
          lastop.out.e = ftype(handles[lastop.h].path)

\* a metadata() call failed on a Uring handle of a directory while another handle is open
C7_Witness ==
    /\ lastop.op = "metadata" /\ lastop.out = Err("EIO")
    /\ lastop.h \in Live /\ handles[lastop.h].variant = "Uring"
    /\ handles[lastop.h].path = "dir"
    /\ Cardinality(Live) = 2

\* C9: try-clone on a Uring handle ends in the "not implemented" panic, never
\* in a handle or an OS error; on a Tokio handle it returns a new Tokio handle on
\* the same file with a descriptor of its own, or the OS error of the duplication.
C9_TryClone ==
    (lastop.op = "try_clone") =>
        IF handles[lastop.h].variant = "Uring"
        THEN /\ lastop.out = Panic("not implemented")
             /\ pc = "panicked"
             /\ NextId - 1 = Cardinality({h \in Handles : handles[h].st # "none"})
             /\ \A h \in Handles : handles[h].st = "live" /\ h # lastop.h =>
                   handles[h].ptr # handles[lastop.h].ptr
        ELSE \/ /\ lastop.out.t = "ok"
                /\ lastop.out.n \in Live /\ lastop.out.n # lastop.h
                /\ handles[lastop.out.n].variant = "Tokio"
                /\ handles[lastop.out.n].path = handles[lastop.h].path
                /\ handles[lastop.out.n].fd # handles[lastop.h].fd
                /\ fdtab[handles[lastop.out.n].fd] = fdtab[handles[lastop.h].fd]
             \/ /\ lastop.out = Err("EMFILE")
                /\ pc = "returned"

\* try-clone on the second of two live Uring handles panicked
C9_Witness ==
    /\ lastop.op = "try_clone" /\ lastop.h = 2
    /\ handles[2].variant = "Uring" /\ Cardinality(Live) = 2
    /\ pc = "panicked"

\* C8: under the thread-pool model a read or write on a Blocking handle runs on
\* a worker thread of the pool while the calling task is suspended: the thread
\* inside the syscall loop is not the thread polling the task.
C8_SyscallOffThePollingThread ==
    (InLoop /\ handles[call.h].variant = "Tokio") =>
        call.runner # thread /\ call.suspended

\* ------------------------------------------------------------- termination
\* an attempt of the syscall whose outcome is not a signal interruption
PreadvSettles == PreadvAttempt /\ last' # Err("EINTR")
PwritevSettles == PwritevAttempt /\ last' # Err("EINTR")

\* The operations on lists of one buffer: the retry loops do not look at the list.
NextLive ==
    \/ \E h \in Callable, b \in SingleBufs, off \in Offsets : AsyncReadAt(h, b, off)
    \/ \E h \in Callable, b \in SingleBufs, off \in Offsets : AsyncReadvAt(h, <<b>>, off)
    \/ \E h \in Callable, b \in SingleBufs, off \in Offsets : AsyncWriteAt(h, b, off)
    \/ \E h \in Callable, b \in SingleBufs, off \in Offsets : AsyncWritevAt(h, <<b>>, off)
    \/ PreadvAttempt
    \/ PwritevAttempt
    \/ UringComplete
    \/ Continue

\* The reads and writes where a syscall that keeps being attempted eventually
\* produces an outcome other than a signal interruption.
LiveSpec ==
    Init /\ [][NextLive]_vars /\ WF_vars(PreadvSettles) /\ WF_vars(PwritevSettles)

\* C10: a call of preadv or pwritev ends once the syscall produces an outcome
\* other than a signal interruption; the loop is left only by a count or by an
\* error that is not an interruption; an interruption always leads back into
\* the loop, any number of times.
C10_Step ==
    /\ (InLoop /\ last' = Err("EINTR")) => pc' = pc
    /\ (InLoop /\ pc' # pc) =>
          /\ pc' \in {"returned", "panicked"}
          /\ \/ last'.t = "ok"
             \/ last'.t = "err" /\ kind(last'.e) # "Interrupted"
C10_RetryUnbounded ==
    InLoop => /\ Err("EINTR") \in (IF pc = "preadv"
                                   THEN preadv64(call.fd, call.iov, call.off)
                                   ELSE pwritev64(call.fd, call.iov, call.off))
              /\ ENABLED (PreadvAttempt \/ PwritevAttempt)
\* C10: every call in the loop leaves it under the fairness of LiveSpec, only
\* by a count or a non-interruption error (C10_Step), and a retry is always
\* possible (C10_RetryUnbounded).
C10_Terminates ==
    /\ InLoop ~> (pc \in {"returned", "panicked"})
    /\ [][C10_Step]_vars
    /\ []C10_RetryUnbounded

\* a call returned after the counter of interruptions had saturated
C10_Witness ==
    /\ pc = "returned" /\ ViaPwritev /\ nintr = MaxIntr /\ res.t = "ok"

====
